---- MODULE Spec2Model ----
(***************************************************************************)
(* A model of pconpy.py: the residue-pair distance metrics and the         *)
(* assembly of the inter-residue distance matrix.                          *)
(*                                                                         *)
(* Numbers.  Coordinates, radii and distances are fixed-point integers in  *)
(* hundredths of an Angstrom (1.55 A is 155).  numpy.linalg.norm is the    *)
(* integer square root of the sum of squares, and the float division of    *)
(* calc_center_of_mass is the floor division, so both are exact to 0.01 A. *)
(* A Python value is a record [tag, v]: tag "float" with the number v,     *)
(* "nan" (numpy's NaN), "None", "vec" with a 3-tuple v, "matrix" with the  *)
(* n-by-n array v, or the name of the exception the call raised.           *)
(***************************************************************************)
EXTENDS Integers, Sequences, FiniteSets, TLC

VARIABLES
    residues,       \* the residue list handed to the call (get_residues' result)
    call,           \* the call made: function and arguments
    out,            \* what the call returned or raised
    empty_indices   \* __main__'s deferred list when its sccmass branch has run

vars == <<residues, call, out, empty_indices>>

\* ---------------------------------------------------------------- values

Float(x) == [tag |-> "float", v |-> x]
NaN == [tag |-> "nan", v |-> 0]
None == [tag |-> "None", v |-> 0]
Vec(c) == [tag |-> "vec", v |-> c]
NaNVec == [tag |-> "nanvec", v |-> <<0, 0, 0>>]
Matrix(m) == [tag |-> "matrix", v |-> m]
Raise(exc) == [tag |-> exc, v |-> 0]

Exceptions == {"NotImplementedError", "AssertionError", "KeyError", "TypeError"}

IsRaise(o) == o.tag \in Exceptions

\* ------------------------------------------------------------- geometry

VSub(a, b) == <<a[1] - b[1], a[2] - b[2], a[3] - b[3]>>
VAdd(a, b) == <<a[1] + b[1], a[2] + b[2], a[3] + b[3]>>
Dot(a, b) == a[1] * b[1] + a[2] * b[2] + a[3] * b[3]
Cross(a, b) ==
    <<a[2] * b[3] - a[3] * b[2], a[3] * b[1] - a[1] * b[3], a[1] * b[2] - a[2] * b[1]>>

RECURSIVE SqrtBetween(_, _, _)
\* The largest r in lo..hi with r * r <= x (lo * lo <= x < (hi + 1) * (hi + 1)).
SqrtBetween(lo, hi, x) ==
    IF lo = hi THEN lo
    ELSE LET mid == (lo + hi + 1) \div 2
         IN  IF mid * mid <= x THEN SqrtBetween(mid, hi, x)
             ELSE SqrtBetween(lo, mid - 1, x)

ISqrt(x) == SqrtBetween(0, 40000, x)

\* numpy.linalg.norm of a 3-vector.
Norm(d) == ISqrt(Dot(d, d))

Abs(x) == IF x < 0 THEN -x ELSE x

\* Bio.PDB.rotaxis(theta, vector) for theta = +120 or -120 degrees: the
\* left-multiplying matrix of the right-handed rotation about `vector`
\* (Rodrigues, cos = -1/2, sin = +-sqrt(3)/2), kept as an integer numerator
\* and a common denominator 2*|vector|^2.  A zero vector normalises to NaN.
rotaxis(theta, vector) ==
    LET A2 == Dot(vector, vector)
        sgn == IF theta = 120 THEN 1 ELSE -1
    IN  [den |-> 2 * A2, diag |-> -A2, skew |-> sgn * ISqrt(3 * A2), axis |-> vector]

\* Vector.left_multiply(matrix): matrix . vector.
left_multiply(vector, rot_mat) ==
    IF rot_mat.den = 0 THEN NaNVec
    ELSE LET k == rot_mat.axis
             kxv == Cross(k, vector)
             kv == Dot(k, vector)
         IN  Vec([i \in 1..3 |->
                    (rot_mat.diag * vector[i] + rot_mat.skew * kxv[i] + 3 * k[i] * kv)
                        \div rot_mat.den])

\* ----------------------------------------------------- atoms and residues

\* An atom name is the sequence of its characters: get_id()[0] is its Head.
AtomN == <<"N">>
AtomCA == <<"C", "A">>
AtomC == <<"C">>
AtomO == <<"O">>
AtomCB == <<"C", "B">>
AtomSG == <<"S", "G">>
AtomOG == <<"O", "G">>
AtomP == <<"P">>
AtomH == <<"H">>
AtomOXT == <<"O", "X", "T">>

BACKBONE_ATOMS == {AtomCA, AtomC, AtomO, AtomN}
BACKBONE_FULL_ATOMS ==
    {AtomCA, AtomC, AtomO, AtomN, AtomH, <<"H", "1">>, <<"H", "2">>, <<"H", "3">>, AtomOXT}

VDW_KEYS == {"N", "C", "H", "O", "S"}
VDW_RADII == [e \in VDW_KEYS |->
    CASE e = "N" -> 155 [] e = "C" -> 170 [] e = "H" -> 120 [] e = "O" -> 152 [] e = "S" -> 185]

\* dict.get(key, default)
DictGet(d, key, default) == IF key \in DOMAIN d THEN d[key] ELSE default

is_backbone(atom) == atom.id \in BACKBONE_ATOMS
is_sidechain(atom) == atom.id \notin BACKBONE_FULL_ATOMS

get_backbone_atoms(res) == SelectSeq(res, is_backbone)
get_sidechain_atoms(res) == SelectSeq(res, is_sidechain)

\* Bio.PDB.Residue: `name in res` and res[name].
Has(res, name) == \E k \in 1..Len(res) : res[k].id = name
AtomOf(res, name) == res[CHOOSE k \in 1..Len(res) : res[k].id = name]

\* ------------------------------------------------------ distance metrics

\* get_atom_coord without its three assert statements: the lookups of N, CA
\* and C then fail with KeyError.
get_atom_coord_unasserted(res, atom_name) ==
    IF Has(res, atom_name) THEN Vec(AtomOf(res, atom_name).coord)
    ELSE IF atom_name # AtomCB THEN Raise("NotImplementedError")
    ELSE IF ~(Has(res, AtomN) /\ Has(res, AtomCA) /\ Has(res, AtomC)) THEN Raise("KeyError")
    ELSE LET N == AtomOf(res, AtomN).coord
             CA == AtomOf(res, AtomCA).coord
             C == AtomOf(res, AtomC).coord
             rotated == left_multiply(N, rotaxis(120, VSub(C, CA)))
         IN  IF rotated.tag = "nanvec" THEN NaNVec ELSE Vec(VAdd(CA, rotated.v))

\* get_atom_coord with the fallback of __main__'s CA/CB branch: a missing
\* atom is replaced by the residue's CA.
get_atom_coord_ca_fallback(res, atom_name) ==
    IF Has(res, atom_name) THEN Vec(AtomOf(res, atom_name).coord)
    ELSE IF Has(res, AtomCA) THEN Vec(AtomOf(res, AtomCA).coord)
    ELSE Raise("KeyError")

\* get_atom_coord(res, atom_name): res[atom_name].get_coord(), or on KeyError
\* the virtual CB built from N, CA and C.
get_atom_coord(res, atom_name) ==
    IF Has(res, atom_name) THEN Vec(AtomOf(res, atom_name).coord)
    ELSE IF atom_name # AtomCB THEN Raise("NotImplementedError")
    ELSE IF ~Has(res, AtomN) THEN Raise("AssertionError")
    ELSE IF ~Has(res, AtomCA) THEN Raise("AssertionError")
    ELSE IF ~Has(res, AtomC) THEN Raise("AssertionError")
    ELSE LET N == AtomOf(res, AtomN).coord
             CA == AtomOf(res, AtomCA).coord
             C == AtomOf(res, AtomC).coord
             CA_N == VSub(N, CA)
             CA_C == VSub(C, CA)
             rot_mat == rotaxis(120, CA_C)
             rotated == left_multiply(N, rot_mat)
         IN  IF rotated.tag = "nanvec" THEN NaNVec ELSE Vec(VAdd(CA, rotated.v))

RECURSIVE WeightedSum(_, _)
\* numpy.array([x.mass * x.get_coord() for x in atoms]).sum() from the k-th
\* atom on: .sum() without an axis adds every element of the array.
WeightedSum(atoms, k) ==
    IF k > Len(atoms) THEN 0
    ELSE LET x == atoms[k]
         IN  x.mass * x.coord[1] + x.mass * x.coord[2] + x.mass * x.coord[3]
                 + WeightedSum(atoms, k + 1)

RECURSIVE MassSum(_, _)
\* sum(x.mass for x in atoms) from the k-th atom on.
MassSum(atoms, k) ==
    IF k > Len(atoms) THEN 0 ELSE atoms[k].mass + MassSum(atoms, k + 1)

\* calc_center_of_mass(atoms): a float64 divided by 0 is NaN (numpy warns,
\* it does not raise).
calc_center_of_mass(atoms) ==
    LET total == WeightedSum(atoms, 1)
        masses == MassSum(atoms, 1)
    IN  IF masses = 0 THEN NaN ELSE Float(total \div masses)

RECURSIVE MinvdwLoop(_, _, _, _)
\* The two nested loops of calc_minvdw_distance from the k-th atom pair
\* (row-major over res_a x res_b), carrying min_dist.
MinvdwLoop(res_a, res_b, k, min_dist) ==
    IF k >= Len(res_a) * Len(res_b) THEN min_dist
    ELSE LET a == res_a[(k \div Len(res_b)) + 1]
             b == res_b[(k % Len(res_b)) + 1]
             radii_a == DictGet(VDW_RADII, Head(a.id), 0)
             radii_b == DictGet(VDW_RADII, Head(b.id), 0)
             dist == Norm(VSub(a.coord, b.coord)) - radii_a - radii_b
         IN  IF min_dist.tag = "None" \/ dist < min_dist.v
             THEN MinvdwLoop(res_a, res_b, k + 1, Float(dist))
             ELSE MinvdwLoop(res_a, res_b, k + 1, min_dist)

RECURSIVE LastPairLoop(_, _, _, _)
LastPairLoop(res_a, res_b, k, min_dist) ==
    IF k >= Len(res_a) * Len(res_b) THEN min_dist
    ELSE LET a == res_a[(k \div Len(res_b)) + 1]
             b == res_b[(k % Len(res_b)) + 1]
             dist == Norm(VSub(a.coord, b.coord))
                        - DictGet(VDW_RADII, Head(a.id), 0)
                        - DictGet(VDW_RADII, Head(b.id), 0)
         IN  LastPairLoop(res_a, res_b, k + 1, Float(dist))

\* calc_minvdw_distance with the comparison dropped: min_dist is overwritten
\* by every atom pair.
calc_minvdw_distance_unguarded(res_a, res_b) == LastPairLoop(res_a, res_b, 0, None)

calc_minvdw_distance(res_a, res_b) == MinvdwLoop(res_a, res_b, 0, None)

calc_cmass_distance(res_a, res_b, sidechain_only) ==
    LET atoms_a == IF sidechain_only THEN get_sidechain_atoms(res_a) ELSE res_a
        atoms_b == IF sidechain_only THEN get_sidechain_atoms(res_b) ELSE res_b
        A == calc_center_of_mass(atoms_a)
        B == calc_center_of_mass(atoms_b)
    IN  IF A.tag = "nan" \/ B.tag = "nan" THEN NaN ELSE Float(Abs(A.v - B.v))

\* Metric selectors are strings, kept as character sequences like atom names:
\* calc_distance hands the selector "CA"/"CB" to get_atom_coord as the name.
MetricCA == AtomCA
MetricCB == AtomCB
MetricCmass == <<"c", "m", "a", "s", "s">>
MetricSccmass == <<"s", "c", "c", "m", "a", "s", "s">>
MetricMinvdw == <<"m", "i", "n", "v", "d", "w">>
MetricDefault == <<"c", "a">>
MetricOther == <<"x", "y", "z">>

\* calc_distance whose final branch falls back to the CA distance instead of
\* raising.
calc_distance_ca_default(res_a, res_b, metric) ==
    LET name == IF metric = MetricCB THEN AtomCB ELSE AtomCA
        A == get_atom_coord(res_a, name)
        B == get_atom_coord(res_b, name)
    IN  IF metric = MetricCmass THEN calc_cmass_distance(res_a, res_b, FALSE)
        ELSE IF metric = MetricMinvdw THEN calc_minvdw_distance(res_a, res_b)
        ELSE IF IsRaise(A) THEN A
        ELSE IF IsRaise(B) THEN B
        ELSE IF A.tag = "nanvec" \/ B.tag = "nanvec" THEN NaN
        ELSE Float(Norm(VSub(A.v, B.v)))

calc_distance(res_a, res_b, metric) ==
    IF metric \in {MetricCA, MetricCB} THEN
        LET A == get_atom_coord(res_a, metric)
            B == get_atom_coord(res_b, metric)
        IN  IF IsRaise(A) THEN A
            ELSE IF IsRaise(B) THEN B
            ELSE IF A.tag = "nanvec" \/ B.tag = "nanvec" THEN NaN
            ELSE Float(Norm(VSub(A.v, B.v)))
    ELSE IF metric = MetricCmass THEN calc_cmass_distance(res_a, res_b, FALSE)
    ELSE IF metric = MetricMinvdw THEN calc_minvdw_distance(res_a, res_b)
    ELSE Raise("NotImplementedError")

\* ------------------------------------------------------- matrix builder

\* numpy.zeros((n, n), dtype="float64"); rows and columns are 1..n here
\* (Python's 0..n-1).
Zeros(n) == [i \in 1..n |-> [j \in 1..n |-> Float(0)]]

\* mat[i,j] = value on a float64 array: a float is stored as it is, NaN
\* stays NaN, and numpy stores None as NaN.
StoreFloat(d) == IF d.tag = "float" THEN d ELSE NaN

RECURSIVE MakeLoop(_, _, _, _, _)
\* The loop of make_dist_matrix from the pair (i, j) on, over
\* combinations(xrange(n), 2) in its lexicographic order; an exception of
\* calc_distance leaves the loop and the function.
MakeLoop(rs, metric, i, j, mat) ==
    IF i >= Len(rs) THEN Matrix(mat)
    ELSE LET res_a == rs[i]
             res_b == rs[j]
             dist == calc_distance(res_a, res_b, metric)
             ni == IF j < Len(rs) THEN i ELSE i + 1
             nj == IF j < Len(rs) THEN j + 1 ELSE i + 2
         IN  IF IsRaise(dist) THEN dist
             ELSE MakeLoop(rs, metric, ni, nj, [mat EXCEPT ![i][j] = StoreFloat(dist)])

\* make_dist_matrix that also mirrors each distance into the lower triangle.
make_dist_matrix_mirrored(rs, metric) ==
    LET upper == MakeLoop(rs, metric, 1, 2, Zeros(Len(rs)))
    IN  IF upper.tag # "matrix" THEN upper
        ELSE Matrix([i \in 1..Len(rs) |-> [j \in 1..Len(rs) |->
                        IF i > j THEN upper.v[j][i] ELSE upper.v[i][j]]])

make_dist_matrix(rs, metric) == MakeLoop(rs, metric, 1, 2, Zeros(Len(rs)))

\* mat.max(): NaN as soon as one cell is NaN, else the largest cell.
MatMax(mat) ==
    LET n == Len(mat)
        cells == {mat[i][j] : i \in 1..n, j \in 1..n}
    IN  IF \E c \in cells : c.tag = "nan" THEN NaN
        ELSE CHOOSE c \in cells : \A d \in cells : d.v <= c.v

RECURSIVE SccmassLoop(_, _, _, _)
\* The sccmass branch of __main__: the two nested enumerate loops from the
\* k-th cell on (row-major), carrying mat and empty_indices.
SccmassLoop(rs, k, mat, empty) ==
    IF k >= Len(rs) * Len(rs) THEN [mat |-> mat, empty_indices |-> empty]
    ELSE LET i == (k \div Len(rs)) + 1
             j == (k % Len(rs)) + 1
             dist == calc_cmass_distance(rs[i], rs[j], TRUE)
         IN  IF dist.tag = "None"
             THEN SccmassLoop(rs, k + 1, mat, Append(empty, <<i, j>>))
             ELSE SccmassLoop(rs, k + 1, [mat EXCEPT ![i][j] = StoreFloat(dist)], empty)

RECURSIVE FillLoop(_, _, _)
\* for i, j in empty_indices: mat[i,j] = mat.max()
FillLoop(mat, empty, k) ==
    IF k > Len(empty) THEN mat
    ELSE FillLoop([mat EXCEPT ![empty[k][1]][empty[k][2]] = MatMax(mat)], empty, k + 1)

main_sccmass(rs) ==
    LET looped == SccmassLoop(rs, 0, Zeros(Len(rs)), <<>>)
    IN  [mat |-> FillLoop(looped.mat, looped.empty_indices, 1),
         empty_indices |-> looped.empty_indices]

\* ----------------------------------------------------------------- inputs

MaxLen == 3
MaxPlace == 2

\* The residues get_residues can deliver, by the atoms their PDB records
\* hold, in file order: alanine, glycine, a CA-only trace residue, cysteine
\* with an amide hydrogen, phosphoserine without its CB, a glycine whose N
\* record is missing.
Templates == <<
    <<AtomN, AtomCA, AtomC, AtomO, AtomCB>>,
    <<AtomN, AtomCA, AtomC, AtomO>>,
    <<AtomCA>>,
    <<AtomN, AtomCA, AtomC, AtomCB, AtomSG, AtomH>>,
    <<AtomN, AtomCA, AtomC, AtomOG, AtomP>>,
    <<AtomCA, AtomC, AtomO>> >>

\* Atom coordinates of a residue at the origin of its frame.
BaseCoord(name) ==
    CASE name = AtomN -> <<-100, 100, 0>>
      [] name = AtomCA -> <<0, 0, 0>>
      [] name = AtomC -> <<100, 100, 100>>
      [] name = AtomO -> <<200, 100, 200>>
      [] name = AtomCB -> <<100, -100, -100>>
      [] name = AtomSG -> <<200, -100, -300>>
      [] name = AtomOG -> <<200, 0, -200>>
      [] name = AtomP -> <<300, -100, -300>>
      [] name = AtomH -> <<-200, 100, 100>>

\* Bio.PDB's Atom.mass, by element.
ElementMass(name) ==
    CASE Head(name) = "C" -> 12
      [] Head(name) = "N" -> 14
      [] Head(name) = "O" -> 16
      [] Head(name) = "S" -> 32
      [] Head(name) = "P" -> 31
      [] Head(name) = "H" -> 1

\* The residue of template t, p residue steps along the chain.
Residue(t, p) ==
    [k \in 1..Len(Templates[t]) |->
        [id |-> Templates[t][k],
         coord |-> VAdd(BaseCoord(Templates[t][k]), <<300 * p, 200 * p, 100 * p>>),
         mass |-> ElementMass(Templates[t][k])]]

Selectors ==
    {MetricCA, MetricCB, MetricCmass, MetricSccmass, MetricMinvdw, MetricDefault, MetricOther}

LookupNames == {AtomCA, AtomCB, AtomN, AtomSG, AtomP}

NoCall == [op |-> "none", a |-> 0, b |-> 0, name |-> <<>>, sidechain_only |-> FALSE]

\* A chain of up to MaxLen residues, the k-th one k steps along the chain.
Init ==
    /\ \E n \in 0..MaxLen :
        \E ts \in [1..n -> 1..Len(Templates)] :
            residues = [k \in 1..n |-> Residue(ts[k], k)]
    /\ call = NoCall
    /\ out = None
    /\ empty_indices = <<>>

\* Two residues, each anywhere up to MaxPlace steps along the chain.
InitPair ==
    /\ \E ta \in 1..Len(Templates), tb \in 1..Len(Templates) :
        \E pa \in 0..MaxPlace, pb \in 0..MaxPlace :
            residues = <<Residue(ta, pa), Residue(tb, pb)>>
    /\ call = NoCall
    /\ out = None
    /\ empty_indices = <<>>

\* ---------------------------------------------------------------- actions

\* Every function is pure: one call is made on the drawn input and its
\* outcome kept.

MakeDistMatrix ==
    \E metric \in Selectors :
        /\ call = NoCall
        /\ call' = [NoCall EXCEPT !.op = "make_dist_matrix", !.name = metric]
        /\ out' = make_dist_matrix(residues, metric)
        /\ UNCHANGED <<residues, empty_indices>>

MainSccmass ==
    /\ call = NoCall
    /\ call' = [NoCall EXCEPT !.op = "main", !.name = MetricSccmass]
    /\ out' = Matrix(main_sccmass(residues).mat)
    /\ empty_indices' = main_sccmass(residues).empty_indices
    /\ UNCHANGED residues

GetAtomCoord ==
    \E a \in 1..Len(residues), name \in LookupNames :
        /\ call = NoCall
        /\ call' = [NoCall EXCEPT !.op = "get_atom_coord", !.a = a, !.name = name]
        /\ out' = get_atom_coord(residues[a], name)
        /\ UNCHANGED <<residues, empty_indices>>

CalcCenterOfMass ==
    \E a \in 1..Len(residues), sc \in BOOLEAN :
        /\ call = NoCall
        /\ call' = [NoCall EXCEPT !.op = "calc_center_of_mass", !.a = a,
                                  !.sidechain_only = sc]
        /\ out' = calc_center_of_mass(
                    IF sc THEN get_sidechain_atoms(residues[a]) ELSE residues[a])
        /\ UNCHANGED <<residues, empty_indices>>

CalcCmassDistance ==
    \E a \in 1..Len(residues), b \in 1..Len(residues), sc \in BOOLEAN :
        /\ call = NoCall
        /\ call' = [NoCall EXCEPT !.op = "calc_cmass_distance", !.a = a, !.b = b,
                                  !.sidechain_only = sc]
        /\ out' = calc_cmass_distance(residues[a], residues[b], sc)
        /\ UNCHANGED <<residues, empty_indices>>

CalcMinvdwDistance ==
    \E a \in 1..Len(residues), b \in 1..Len(residues) :
        /\ call = NoCall
        /\ call' = [NoCall EXCEPT !.op = "calc_minvdw_distance", !.a = a, !.b = b]
        /\ out' = calc_minvdw_distance(residues[a], residues[b])
        /\ UNCHANGED <<residues, empty_indices>>

CalcDistance ==
    \E a \in 1..Len(residues), b \in 1..Len(residues), metric \in Selectors :
        /\ call = NoCall
        /\ call' = [NoCall EXCEPT !.op = "calc_distance", !.a = a, !.b = b,
                                  !.name = metric]
        /\ out' = calc_distance(residues[a], residues[b], metric)
        /\ UNCHANGED <<residues, empty_indices>>

Next == MakeDistMatrix \/ MainSccmass

NextPair ==
    \/ GetAtomCoord
    \/ CalcCenterOfMass
    \/ CalcCmassDistance
    \/ CalcMinvdwDistance
    \/ CalcDistance

Spec == Init /\ [][Next]_vars

SpecPair == InitPair /\ [][NextPair]_vars

\* ----------------------------------------------------------------- claims

FiveSelectors == {MetricCA, MetricCB, MetricCmass, MetricSccmass, MetricMinvdw}

Made == call.op = "make_dist_matrix"

\* C1: when make_dist_matrix returns, the result is n-by-n for the n input
\* residues, every diagonal and lower-triangle cell is 0, and every cell
\* [i][j] with i < j is the selected metric's distance between the residues
\* at positions i and j of the input list.
C1_MatrixCells ==
    (Made /\ out.tag = "matrix") =>
        LET n == Len(residues)
        IN  /\ DOMAIN out.v = 1..n
            /\ \A i \in 1..n : DOMAIN out.v[i] = 1..n
            /\ \A i \in 1..n, j \in 1..n :
                out.v[i][j] = IF i < j THEN calc_distance(residues[i], residues[j], call.name)
                              ELSE Float(0)

\* C1 witness: a matrix was built for three residues whose three pair
\* distances are non-zero and pairwise different, so a cell of the wrong
\* pair would show.
C1_Witness ==
    /\ Made
    /\ out.tag = "matrix"
    /\ Len(residues) = 3
    /\ out.v[1][2].v # 0
    /\ out.v[1][2] # out.v[1][3]
    /\ out.v[1][2] # out.v[2][3]
    /\ out.v[1][3] # out.v[2][3]

\* C2 (as claimed): make_dist_matrix with a selector outside the five fails
\* with the unsupported-metric error for every residue list, also of length
\* 0 and 1.
C2_Original ==
    (Made /\ call.name \notin FiveSelectors) => out = Raise("NotImplementedError")

\* C2 (amended): with a selector outside the five, make_dist_matrix fails
\* with NotImplementedError when the list holds at least two residues; for a
\* list of 0 or 1 residues no pair is dispatched and the all-zero matrix is
\* returned.
C2_LazyDispatch ==
    (Made /\ call.name \notin FiveSelectors) =>
        IF Len(residues) >= 2 THEN out = Raise("NotImplementedError")
        ELSE out = Matrix(Zeros(Len(residues)))

\* C2 witness: the builder's own default selector "ca" on three residues
\* raised.
C2_Witness ==
    /\ Made
    /\ call.name = MetricDefault
    /\ Len(residues) = 3
    /\ out.tag = "NotImplementedError"

\* C3 (as claimed): calc_distance routes CA/CB to the named-atom distance,
\* cmass to the all-atom and sccmass to the side-chain-only centre-of-mass
\* distance, minvdw to the minimum van-der-Waals-surface distance.
C3_Routing ==
    (call.op = "calc_distance") =>
        LET res_a == residues[call.a]
            res_b == residues[call.b]
        IN  /\ (/\ call.name \in {MetricCA, MetricCB}
                /\ Has(res_a, call.name)
                /\ Has(res_b, call.name)) =>
                    out = Float(Norm(VSub(AtomOf(res_a, call.name).coord,
                                          AtomOf(res_b, call.name).coord)))
            /\ call.name = MetricCmass => out = calc_cmass_distance(res_a, res_b, FALSE)
            /\ call.name = MetricSccmass => out = calc_cmass_distance(res_a, res_b, TRUE)
            /\ call.name = MetricMinvdw => out = calc_minvdw_distance(res_a, res_b)

NoSidechain(res) == get_sidechain_atoms(res) = <<>>

\* C4 (as claimed): the sccmass build returns a matrix; every pair with a
\* residue that has no side-chain atoms is in the deferred list, its cell
\* holds the matrix's largest finite value, and no cell is NaN.
C4_FillPolicy ==
    (call.op = "main") =>
        LET n == Len(residues)
        IN  /\ out.tag = "matrix"
            /\ \A i \in 1..n, j \in 1..n :
                /\ out.v[i][j].tag # "nan"
                /\ (NoSidechain(residues[i]) \/ NoSidechain(residues[j])) =>
                    /\ \E k \in 1..Len(empty_indices) : empty_indices[k] = <<i, j>>
                    /\ \A p \in 1..n, q \in 1..n : out.v[p][q].v <= out.v[i][j].v

LacksVirtualCBInput(res) ==
    /\ ~Has(res, AtomCB)
    /\ ~(Has(res, AtomN) /\ Has(res, AtomCA) /\ Has(res, AtomC))

ClaimRadius(e) ==
    CASE e = "N" -> 155 [] e = "C" -> 170 [] e = "H" -> 120 [] e = "O" -> 152
      [] e = "S" -> 185 [] OTHER -> 0

SurfaceDistances(res_a, res_b) ==
    {Norm(VSub(res_a[p].coord, res_b[q].coord))
        - ClaimRadius(Head(res_a[p].id)) - ClaimRadius(Head(res_b[q].id)) :
            p \in 1..Len(res_a), q \in 1..Len(res_b)}

\* C6: for two residues with at least one atom each, calc_minvdw_distance
\* returns the least, over all atom pairs, of centre distance minus the two
\* radii looked up by the first character of the atom names (0 for an
\* element outside the table); the result may be negative.
C6_MinSurfaceDistance ==
    (/\ call.op = "calc_minvdw_distance"
     /\ Len(residues[call.a]) >= 1
     /\ Len(residues[call.b]) >= 1) =>
        LET ds == SurfaceDistances(residues[call.a], residues[call.b])
        IN  /\ out.tag = "float"
            /\ out.v \in ds
            /\ \A d \in ds : out.v <= d

\* C6 witness: a minvdw call on two residues at different places, one with an
\* atom of an element outside the table, whose minimum is negative and is
\* not the value of the first atom pair.
C6_Witness ==
    /\ call.op = "calc_minvdw_distance"
    /\ residues[call.a][1].coord # residues[call.b][1].coord
    /\ Has(residues[call.a], AtomP)
    /\ Len(residues[call.b]) >= 2
    /\ out.tag = "float"
    /\ out.v < 0
    /\ out.v # Norm(VSub(residues[call.a][1].coord, residues[call.b][1].coord))
                - ClaimRadius(Head(residues[call.a][1].id))
                - ClaimRadius(Head(residues[call.b][1].id))

Looked == call.op = "get_atom_coord"

C8_ExplicitSignal ==
    (/\ call.op = "calc_cmass_distance"
     /\ call.sidechain_only
     /\ (NoSidechain(residues[call.a]) \/ NoSidechain(residues[call.b]))) =>
        out.tag \notin {"nan", "float"}

RECURSIVE AxisSum(_, _, _)
AxisSum(atoms, axis, k) ==
    IF k > Len(atoms) THEN 0
    ELSE atoms[k].mass * atoms[k].coord[axis] + AxisSum(atoms, axis, k + 1)

\* The mass-weighted centroid, axis by axis.
Centroid(atoms) == [axis \in 1..3 |-> AxisSum(atoms, axis, 1) \div MassSum(atoms, 1)]

\* C9 (as claimed): for a non-empty atom set calc_center_of_mass returns the
\* 3-component mass-weighted centroid, and calc_cmass_distance the Euclidean
\* norm of the difference of the two centroids.
C9_Centroid ==
    /\ (call.op = "calc_center_of_mass" /\ ~call.sidechain_only) =>
            out = Vec(Centroid(residues[call.a]))
    /\ (call.op = "calc_cmass_distance" /\ ~call.sidechain_only) =>
            out = Float(Norm(VSub(Centroid(residues[call.a]), Centroid(residues[call.b]))))

\* C10 (as claimed): for a residue without CB but with N, CA and C,
\* get_atom_coord(res, "CB") is CA plus the vector N - CA rotated by -120
\* degrees about C - CA.
C10_VirtualCB ==
    (/\ Looked
     /\ call.name = AtomCB
     /\ ~Has(residues[call.a], AtomCB)
     /\ Has(residues[call.a], AtomN)
     /\ Has(residues[call.a], AtomCA)
     /\ Has(residues[call.a], AtomC)) =>
        LET N == AtomOf(residues[call.a], AtomN).coord
            CA == AtomOf(residues[call.a], AtomCA).coord
            C == AtomOf(residues[call.a], AtomC).coord
            turned == left_multiply(VSub(N, CA), rotaxis(-120, VSub(C, CA)))
        IN  out = Vec(VAdd(CA, turned.v))

====
